---------------------------- MODULE Spec2Model ----------------------------
(***************************************************************************)
(* ripit: a pattern-convenience wrapper around ripgrep (src/ripit.py).     *)
(*                                                                         *)
(* A Python str is modelled as a sequence of one-character strings, so     *)
(* that str.replace, str.splitlines, str.split, str.strip and int() are    *)
(* computed character by character.  An argument vector is a sequence of   *)
(* such strings.  The bytes a child process writes are a sequence of       *)
(* one-character strings too, with InvalidByte standing for a byte that is *)
(* not valid in the locale's encoding.                                     *)
(***************************************************************************)
EXTENDS Integers, Sequences, FiniteSets, TLC

VARIABLES
    rgInstall,      \* the environment: how 'rg' is installed on PATH
    imported,       \* whether the package (src/__init__.py) has been imported
    hasSearcher,    \* whether a Ripit instance has been constructed
    default_args,   \* Ripit.default_args of that instance
    callerList,     \* the list object the caller passed to Ripit(...)
    aliased,        \* whether default_args is that very list object
    spawned,        \* number of external processes spawned so far
    calls,          \* number of public operations invoked so far
    op,             \* the last operation invoked
    pattern,        \* its pattern argument
    args,           \* its *args
    regex_pattern,  \* local regex_pattern of Ripit.search
    cmd,            \* local cmd of Ripit.search: the argument vector executed
    proc,           \* what the child process did: returncode, stdout, stderr
    output,         \* the text Ripit.search returned (local output of lines/count)
    result,         \* the value the operation returned
    raised,         \* the exception the operation raised, or "none"
    pc              \* position of the function-level specifications

vars == <<rgInstall, imported, hasSearcher, default_args, callerList, aliased,
          spawned, calls, op, pattern, args, regex_pattern, cmd, proc, output,
          result, raised, pc>>

envVars == <<rgInstall, imported, hasSearcher, default_args, callerList,
             aliased, spawned, calls>>

\* No value: a local not assigned yet, or the result of a call that raised.
NoValue == <<>>

\* No child process ran.
NoProc == [ran |-> FALSE, returncode |-> 0, stdout |-> <<>>, stderr |-> <<>>]

(***************************************************************************)
(* Characters and literals of the source.                                  *)
(***************************************************************************)
BS == "\\"

Brackets == {"(", ")", "[", "]", "{", "}"}

TokAny == <<"<", ">">>

TokName == <<"<", "n", "a", "m", "e", ">">>

TokNum == <<"<", "n", "u", "m", ">">>

ReAny == <<".", "*">>

ReName == <<BS, "w", "+">>

ReNum == <<BS, "d", "+">>

(***************************************************************************)
(* str.replace(old, new) for a non-empty old: every non-overlapping        *)
(* occurrence, found scanning from the left, is replaced.                  *)
(***************************************************************************)
RECURSIVE replaceFirstOnly(_, _, _)
replaceFirstOnly(s, old, new) ==
    IF Len(s) < Len(old) THEN s
    ELSE IF SubSeq(s, 1, Len(old)) = old
         THEN new \o SubSeq(s, Len(old) + 1, Len(s))
         ELSE <<Head(s)>> \o replaceFirstOnly(Tail(s), old, new)

RECURSIVE replace(_, _, _)
replace(s, old, new) ==
    IF Len(s) < Len(old) THEN s
    ELSE IF SubSeq(s, 1, Len(old)) = old
         THEN new \o replace(SubSeq(s, Len(old) + 1, Len(s)), old, new)
         ELSE <<Head(s)>> \o replace(Tail(s), old, new)

(***************************************************************************)
(* Ripit._convert_pattern: nine replacements, each on the result of the    *)
(* one before.                                                             *)
(***************************************************************************)
convert_parens_unescaped(p) ==
    LET p3 == replace(p, <<"[">>, <<BS, "[">>)
        p4 == replace(p3, <<"]">>, <<BS, "]">>)
        p5 == replace(p4, <<"{">>, <<BS, "{">>)
        p6 == replace(p5, <<"}">>, <<BS, "}">>)
        p7 == replace(p6, TokAny, ReAny)
        p8 == replace(p7, TokName, ReName)
    IN  replace(p8, TokNum, ReNum)

_convert_pattern(p) ==
    LET p1 == replace(p, <<"(">>, <<BS, "(">>)
        p2 == replace(p1, <<")">>, <<BS, ")">>)
        p3 == replace(p2, <<"[">>, <<BS, "[">>)
        p4 == replace(p3, <<"]">>, <<BS, "]">>)
        p5 == replace(p4, <<"{">>, <<BS, "{">>)
        p6 == replace(p5, <<"}">>, <<BS, "}">>)
        p7 == replace(p6, TokAny, ReAny)
        p8 == replace(p7, TokName, ReName)
    IN  replace(p8, TokNum, ReNum)

(***************************************************************************)
(* Input patterns: every concatenation of at most MaxPieces pieces, and    *)
(* the patterns the documentation and the tests name.                      *)
(***************************************************************************)
MaxPieces == 3

Pieces ==
    {<<c>> : c \in Brackets \cup {"<", ">", BS, "x"}}
        \cup {TokAny, TokName, TokNum, <<"n", "a", "m", "e">>, <<"n", "u", "m">>}

RECURSIVE Flatten(_)
Flatten(ss) == IF ss = <<>> THEN <<>> ELSE Head(ss) \o Flatten(Tail(ss))

PieceSeqs == UNION {[1..n -> Pieces] : n \in 0..MaxPieces}

PatDefName == <<"d", "e", "f", " ", "<", "n", "a", "m", "e", ">", "(", ")", ":">>

PatDefParams ==
    <<"d", "e", "f", " ", "<", "n", "a", "m", "e", ">", "(", "<", ">", ")", ":">>

PatImport == <<"i", "m", "p", "o", "r", "t", " ", "<", ">">>

ExamplePatterns == {PatDefName, PatDefParams, PatImport}

Patterns == {Flatten(ps) : ps \in PieceSeqs} \cup ExamplePatterns

(***************************************************************************)
(* The translator as a function: the input is drawn, _convert_pattern is   *)
(* applied to it.                                                          *)
(***************************************************************************)
IdleCall ==
    /\ op = "none" /\ args = <<>> /\ cmd = <<>>
    /\ proc = NoProc /\ output = NoValue /\ result = NoValue /\ raised = "none"

IdleEnv ==
    /\ rgInstall = "ok" /\ imported = FALSE /\ hasSearcher = FALSE
    /\ default_args = <<>> /\ callerList = <<>> /\ aliased = FALSE
    /\ spawned = 0 /\ calls = 0

InitTranslate ==
    /\ IdleEnv /\ IdleCall
    /\ pattern \in Patterns
    /\ regex_pattern = NoValue
    /\ pc = "input"

Translate ==
    /\ pc = "input"
    /\ regex_pattern' = _convert_pattern(pattern)
    /\ pc' = "done"
    /\ UNCHANGED <<envVars, op, pattern, args, cmd, proc, output, result, raised>>

\* The translator applied to its own result.
TranslateAgain ==
    /\ pc = "done"
    /\ result' = _convert_pattern(regex_pattern)
    /\ pc' = "twice"
    /\ UNCHANGED <<envVars, op, pattern, args, regex_pattern, cmd, proc, output,
                   raised>>

NextTranslate == Translate \/ TranslateAgain

SpecTranslate == InitTranslate /\ [][NextTranslate]_vars

(***************************************************************************)
(* Reading a regular expression: a character is escaped when the run of    *)
(* backslashes directly before it has odd length.                          *)
(***************************************************************************)
RECURSIVE BackslashRun(_, _)
BackslashRun(s, i) ==
    IF i >= 1 /\ s[i] = BS THEN 1 + BackslashRun(s, i - 1) ELSE 0

IsEscapedAt(s, i) == BackslashRun(s, i - 1) % 2 = 1

\* C1: in the translator's output every ( ) [ ] { } is escaped, i.e. preceded
\* by an odd-length run of backslashes, whatever the input (also when the
\* input has a backslash directly before the character).
C1_NoUnescapedBracket ==
    pc = "done" =>
        \A i \in DOMAIN regex_pattern :
            regex_pattern[i] \in Brackets => IsEscapedAt(regex_pattern, i)

(***************************************************************************)
(* The six steps of the documented algorithm, stated on their own: a step  *)
(* that prefixes the characters of a set, and a step that substitutes a    *)
(* token at each of its leftmost occurrences.                              *)
(***************************************************************************)
RECURSIVE PrefixEach(_, _)
PrefixEach(s, chars) ==
    IF s = <<>> THEN <<>>
    ELSE PrefixEach(SubSeq(s, 1, Len(s) - 1), chars)
            \o (IF s[Len(s)] \in chars THEN <<BS, s[Len(s)]>> ELSE <<s[Len(s)]>>)

OccursAt(s, tok, i) ==
    /\ i + Len(tok) - 1 <= Len(s)
    /\ \A k \in 1..Len(tok) : s[i + k - 1] = tok[k]

RECURSIVE SubstituteAll(_, _, _)
SubstituteAll(s, tok, by) ==
    LET occ == {i \in 1..Len(s) : OccursAt(s, tok, i)}
    IN  IF occ = {} THEN s
        ELSE LET i == CHOOSE i \in occ : \A j \in occ : i <= j
             IN  SubSeq(s, 1, i - 1) \o by
                    \o SubstituteAll(SubSeq(s, i + Len(tok), Len(s)), tok, by)

SixSteps(p) ==
    LET s1 == PrefixEach(p, {"(", ")"})
        s2 == PrefixEach(s1, {"[", "]"})
        s3 == PrefixEach(s2, {"{", "}"})
        s4 == SubstituteAll(s3, TokAny, ReAny)
        s5 == SubstituteAll(s4, TokName, ReName)
    IN  SubstituteAll(s5, TokNum, ReNum)

\* C2: the translator's result is, for every input, the result of the six
\* documented steps in their order; "<>" gives ".*" and "<num>" gives "\d+".
C2_SixStepsInOrder ==
    pc = "done" =>
        /\ regex_pattern = SixSteps(pattern)
        /\ (pattern = TokAny => regex_pattern = ReAny)
        /\ (pattern = TokNum => regex_pattern = ReNum)

C2_Witness ==
    /\ pc = "done"
    /\ pattern = <<"{", "<", "n", "u", "m", ">", "}">>
    /\ regex_pattern = <<BS, "{", BS, "d", "+", BS, "}">>

\* C3 as stated: translating "def <name>():" yields "def \w+():".
C3_YieldsUnescapedParens ==
    (pc = "done" /\ pattern = PatDefName) =>
        regex_pattern = <<"d", "e", "f", " ", BS, "w", "+", "(", ")", ":">>

\* C3 as amended: translating "def <name>():" yields "def \w+\(\):", the name
\* token substituted and both parentheses escaped.
C3_YieldsEscapedParens ==
    (pc = "done" /\ pattern = PatDefName) =>
        regex_pattern =
            <<"d", "e", "f", " ", BS, "w", "+", BS, "(", BS, ")", ":">>

C3_Witness ==
    /\ pc = "done"
    /\ pattern = PatDefName
    /\ Len(regex_pattern) = 12

HasBracket(s) == \E i \in DOMAIN s : s[i] \in Brackets

HasToken(s) ==
    \E i \in DOMAIN s :
        OccursAt(s, TokAny, i) \/ OccursAt(s, TokName, i) \/ OccursAt(s, TokNum, i)

\* C14: for a pattern without ( ) [ ] { } the result of one pass holds none
\* of the tokens "<>", "<name>", "<num>" and a second pass returns it as it
\* is; for a pattern with one of those characters a second pass changes it.
C14_IdempotentWithoutBrackets ==
    pc = "twice" =>
        /\ ~HasToken(regex_pattern)
        /\ (~HasBracket(pattern) => result = regex_pattern)
        /\ (HasBracket(pattern) => result # regex_pattern)

C14_Witness ==
    /\ pc = "twice"
    /\ pattern = <<"<", "<", ">", ">">>
    /\ regex_pattern = <<"<", ".", "*", ">">>
    /\ result = regex_pattern

(***************************************************************************)
(* Python's text functions used by Ripit.lines and Ripit.count.            *)
(* LineBoundaries are the line boundaries of str.splitlines that a TLA+    *)
(* string can name; the others (vertical tab, file/group/record separator, *)
(* next line, line/paragraph separator) behave as "\f" does.               *)
(* Whitespace is what str.strip and int() strip.                           *)
(***************************************************************************)
LineBoundaries == {"\n", "\r", "\f"}

Whitespace == {" ", "\t", "\n", "\r", "\f"}

Digits == {"0", "1", "2", "3", "4", "5", "6", "7", "8", "9"}

DigitVal(c) ==
    CASE c = "0" -> 0 [] c = "1" -> 1 [] c = "2" -> 2 [] c = "3" -> 3
      [] c = "4" -> 4 [] c = "5" -> 5 [] c = "6" -> 6 [] c = "7" -> 7
      [] c = "8" -> 8 [] c = "9" -> 9

\* str.splitlines(): scan for the next boundary; "\r\n" is one boundary; a
\* text that ends in a boundary has no empty last line.
RECURSIVE splitlinesFrom(_, _, _)
splitlinesFrom(s, i, start) ==
    IF i > Len(s)
    THEN IF start <= Len(s) THEN <<SubSeq(s, start, Len(s))>> ELSE <<>>
    ELSE IF s[i] \in LineBoundaries
         THEN LET eol == IF s[i] = "\r" /\ i < Len(s) /\ s[i + 1] = "\n"
                         THEN i + 2 ELSE i + 1
              IN  <<SubSeq(s, start, i - 1)>> \o splitlinesFrom(s, eol, eol)
         ELSE splitlinesFrom(s, i + 1, start)

splitlines(s) == splitlinesFrom(s, 1, 1)

\* str.strip(): leading and trailing whitespace removed.
RECURSIVE lstrip(_)
lstrip(s) == IF s # <<>> /\ Head(s) \in Whitespace THEN lstrip(Tail(s)) ELSE s

RECURSIVE rstrip(_)
rstrip(s) ==
    IF s # <<>> /\ s[Len(s)] \in Whitespace
    THEN rstrip(SubSeq(s, 1, Len(s) - 1)) ELSE s

strip(s) == rstrip(lstrip(s))

\* str.split(sep) for a one-character sep: the fields between separators,
\* empty fields included.
RECURSIVE splitFrom(_, _, _, _)
splitFrom(s, sep, i, start) ==
    IF i > Len(s) THEN <<SubSeq(s, start, Len(s))>>
    ELSE IF s[i] = sep
         THEN <<SubSeq(s, start, i - 1)>> \o splitFrom(s, sep, i + 1, i + 1)
         ELSE splitFrom(s, sep, i + 1, start)

split(s, sep) == splitFrom(s, sep, 1, 1)

\* int(x) of a str, base 10: whitespace stripped, an optional sign, then
\* digits with single underscores between digits; anything else is a
\* ValueError (ok = FALSE).
RECURSIVE digitsValue(_, _)
digitsValue(ds, acc) ==
    IF ds = <<>> THEN acc
    ELSE IF Head(ds) = "_" THEN digitsValue(Tail(ds), acc)
         ELSE digitsValue(Tail(ds), 10 * acc + DigitVal(Head(ds)))

RECURSIVE digitsWellFormed(_, _)
digitsWellFormed(ds, prevIsDigit) ==
    IF ds = <<>> THEN prevIsDigit
    ELSE IF Head(ds) \in Digits THEN digitsWellFormed(Tail(ds), TRUE)
         ELSE IF Head(ds) = "_" /\ prevIsDigit
              THEN digitsWellFormed(Tail(ds), FALSE)
              ELSE FALSE

int(x) ==
    LET t      == strip(x)
        signed == t # <<>> /\ Head(t) \in {"+", "-"}
        ds     == IF signed THEN Tail(t) ELSE t
    IN  IF digitsWellFormed(ds, FALSE)
        THEN [ok |-> TRUE,
              val |-> IF signed /\ Head(t) = "-"
                      THEN 0 - digitsValue(ds, 0) ELSE digitsValue(ds, 0)]
        ELSE [ok |-> FALSE, val |-> 0]

(***************************************************************************)
(* The list comprehension of Ripit.lines.                                  *)
(***************************************************************************)
lines_stripped(out) ==
    LET ls == splitlines(out)
        kept == SelectSeq(ls, LAMBDA line : strip(line) # <<>>)
    IN  [k \in 1..Len(kept) |-> strip(kept[k])]

lines_of(out) == SelectSeq(splitlines(out), LAMBDA line : strip(line) # <<>>)

(***************************************************************************)
(* The loop of Ripit.count.  The accumulator holds total and the exception *)
(* that left the loop, if one did.                                         *)
(***************************************************************************)
second_field(line) == split(line, ":")[2]

count_str(line) == LET fields == split(line, ":") IN fields[Len(fields)]

propagate_ValueError(acc) == [acc EXCEPT !.raised = "ValueError"]

except_ValueError(acc) == acc

count_line(acc, line) ==
    IF \E i \in DOMAIN line : line[i] = ":"
    THEN LET n == int(count_str(line))
         IN  IF n.ok THEN [acc EXCEPT !.total = acc.total + n.val]
             ELSE except_ValueError(acc)
    ELSE acc

RECURSIVE count_loop(_, _)
count_loop(ls, acc) ==
    IF ls = <<>> \/ acc.raised # "none" THEN acc
    ELSE count_loop(Tail(ls), count_line(acc, Head(ls)))

count_of(out) == count_loop(splitlines(out), [total |-> 0, raised |-> "none"])

(***************************************************************************)
(* Output texts: every text of at most MaxOutLen characters over           *)
(* OutAlphabet, and the texts the documentation names.                     *)
(***************************************************************************)
MaxOutLen == 4

OutAlphabet == {"a", ":", "3", "-", "_", " ", "\n", "\f"}

OutTwoFiles ==
    <<"f", "i", "l", "e", "1", ".", "p", "y", ":", "3", "\n",
      "f", "i", "l", "e", "2", ".", "p", "y", ":", "5", "\n">>

OutMalformed ==
    <<"f", "i", "l", "e", "1", ".", "p", "y", ":", "a", "b", "c", "\n",
      "f", "i", "l", "e", "2", ".", "p", "y", ":", "5", "\n">>

OutBlankLines == <<"a", "\n", "\n", " ", " ", "\n", "b", "\n">>

OutColonPath ==
    <<"C", ":", "\\", "x", ".", "p", "y", ":", "7", "\n",
      "f", "i", "l", "e", "1", ".", "p", "y", ":", "3", "\n">>

OutPadded ==
    <<"f", ":", " ", "4", "\t", "\n", "f", ":", "+", "1", "\n",
      "f", ":", "1", "_", "0", "\n">>

OutBareCount == <<"5", "\n">>

ExampleOutputs ==
    {OutTwoFiles, OutMalformed, OutBlankLines, OutColonPath, OutPadded,
     OutBareCount}

Outputs == UNION {[1..n -> OutAlphabet] : n \in 0..MaxOutLen} \cup ExampleOutputs

(***************************************************************************)
(* The aggregators as functions of the text Ripit.search returned.         *)
(***************************************************************************)
InitAggregate ==
    /\ IdleEnv
    /\ op = "none" /\ args = <<>> /\ cmd = <<>> /\ proc = NoProc
    /\ pattern = <<>> /\ regex_pattern = NoValue
    /\ output \in Outputs
    /\ result = NoValue /\ raised = "none"
    /\ pc = "input"

AggregateLines ==
    /\ pc = "input"
    /\ result' = lines_of(output)
    /\ pc' = "lines"
    /\ UNCHANGED <<envVars, op, pattern, args, regex_pattern, cmd, proc, output,
                   raised>>

AggregateCount ==
    /\ pc = "input"
    /\ LET acc == count_of(output)
       IN  /\ raised' = acc.raised
           /\ result' = IF acc.raised = "none" THEN acc.total ELSE NoValue
    /\ pc' = "count"
    /\ UNCHANGED <<envVars, op, pattern, args, regex_pattern, cmd, proc, output>>

NextAggregate == AggregateLines \/ AggregateCount

SpecAggregate == InitAggregate /\ [][NextAggregate]_vars

(***************************************************************************)
(* Lines and integers, stated on their own.  A segment is a maximal run of *)
(* characters without a line boundary.                                     *)
(***************************************************************************)
IsSegment(s, i, j) ==
    /\ i <= j
    /\ \A k \in i..j : s[k] \notin LineBoundaries
    /\ i = 1 \/ s[i - 1] \in LineBoundaries
    /\ j = Len(s) \/ s[j + 1] \in LineBoundaries

SegmentStarts(s) == {i \in 1..Len(s) : \E j \in i..Len(s) : IsSegment(s, i, j)}

SegmentAt(s, i) ==
    SubSeq(s, i, CHOOSE j \in i..Len(s) : IsSegment(s, i, j))

\* The segments of s in their order.
Segments(s) ==
    LET starts == SegmentStarts(s)
        nth(k) == CHOOSE i \in starts :
                      Cardinality({h \in starts : h < i}) = k - 1
    IN  [k \in 1..Cardinality(starts) |-> SegmentAt(s, nth(k))]

IsBlank(line) == \A k \in DOMAIN line : line[k] \in Whitespace

HasColon(line) == \E k \in DOMAIN line : line[k] = ":"

\* The text after the last ":" of the line (the whole line when it has none).
LastField(line) ==
    LET colons == {k \in DOMAIN line : line[k] = ":"}
        from == IF colons = {} THEN 1
                ELSE 1 + CHOOSE k \in colons : \A h \in colons : h <= k
    IN  SubSeq(line, from, Len(line))

\* The integer literal inside f, if f is one: optional whitespace around an
\* optional sign and digits, underscores only singly between two digits.
LiteralBody(f) ==
    LET inked == {k \in DOMAIN f : f[k] \notin Whitespace}
        lo == CHOOSE k \in inked : \A h \in inked : k <= h
        hi == CHOOSE k \in inked : \A h \in inked : h <= k
    IN  IF inked = {} THEN <<>>
        ELSE IF f[lo] \in {"+", "-"} THEN SubSeq(f, lo + 1, hi)
             ELSE SubSeq(f, lo, hi)

IsIntLiteral(f) ==
    LET b == LiteralBody(f)
    IN  /\ b # <<>>
        /\ \A k \in DOMAIN b : b[k] \in Digits \cup {"_"}
        /\ b[1] \in Digits /\ b[Len(b)] \in Digits
        /\ \A k \in 1..(Len(b) - 1) : ~(b[k] = "_" /\ b[k + 1] = "_")

RECURSIVE Pow10(_)
Pow10(n) == IF n = 0 THEN 1 ELSE 10 * Pow10(n - 1)

RECURSIVE SumOver(_, _)
SumOver(S, f) ==
    IF S = {} THEN 0
    ELSE LET x == CHOOSE x \in S : TRUE IN f[x] + SumOver(S \ {x}, f)

IntValue(f) ==
    LET b == LiteralBody(f)
        digitAt == {k \in DOMAIN b : b[k] \in Digits}
        weight(k) == Pow10(Cardinality({h \in digitAt : h > k}))
        magnitude == SumOver(digitAt, [k \in digitAt |-> DigitVal(b[k]) * weight(k)])
        negative == \E k \in DOMAIN f :
                        f[k] = "-" /\ \A h \in 1..(k - 1) : f[h] \in Whitespace
    IN  IF negative THEN 0 - magnitude ELSE magnitude

\* The sum of the last fields that are integer literals, over the lines
\* that satisfy Counted.
FieldSum(out, Counted(_)) ==
    LET segs == Segments(out)
        idx == {k \in DOMAIN segs : Counted(segs[k]) /\ IsIntLiteral(LastField(segs[k]))}
    IN  SumOver(idx, [k \in idx |-> IntValue(LastField(segs[k]))])

EveryLine(line) == TRUE

\* C6 as stated: count returns the sum, over every line of the output, of
\* the integer value of the line's last ":"-delimited field when that field
\* is an integer.
C6_SumOverEveryLine ==
    pc = "count" =>
        /\ raised = "none"
        /\ result = FieldSum(output, EveryLine)

\* C6 as amended: count returns the sum, over every line of the output that
\* contains a ":", of the integer value of the line's last ":"-delimited
\* field when that field is an integer; "file1.py:3\nfile2.py:5\n" gives 8,
\* a path with a ":" contributes its final field only, no such line gives 0.
C6_SumOverColonLines ==
    pc = "count" =>
        /\ raised = "none"
        /\ result = FieldSum(output, HasColon)
        /\ (output = OutTwoFiles => result = 8)
        /\ (output = OutColonPath => result = 10)
        /\ ((\A k \in DOMAIN Segments(output) :
                ~(HasColon(Segments(output)[k])
                    /\ IsIntLiteral(LastField(Segments(output)[k]))))
            => result = 0)

C6_Witness ==
    /\ pc = "count"
    /\ output = OutColonPath
    /\ result = 10

WellFormed(line) == HasColon(line) /\ IsIntLiteral(LastField(line))

JoinLines(ls) == Flatten([k \in DOMAIN ls |-> ls[k] \o <<"\n">>])

\* C7: count raises for no output text, and a line that is not of
\* path:count shape or whose last field is no integer contributes nothing,
\* wherever it stands: the result is that of the output with those lines
\* removed.
C7_MalformedLinesSkipped ==
    pc = "count" =>
        /\ raised = "none"
        /\ result = count_of(JoinLines(SelectSeq(Segments(output), WellFormed))).total

C7_Witness ==
    /\ pc = "count"
    /\ output = OutMalformed
    /\ raised = "none"
    /\ result = 5

\* C8: lines returns the lines of the output that are neither empty nor
\* whitespace-only, each as it is in the output, in their order;
\* "a\n\n  \nb\n" gives <<"a", "b">>.
C8_NonBlankLinesInOrder ==
    pc = "lines" =>
        /\ result = SelectSeq(Segments(output), LAMBDA line : ~IsBlank(line))
        /\ (output = OutBlankLines => result = << <<"a">>, <<"b">> >>)

C8_Witness ==
    /\ pc = "lines"
    /\ output = <<" ", "a", "\n", " ">>
    /\ result = << <<" ", "a">> >>

(***************************************************************************)
(* The environment.  rgInstall says what PATH holds under the name rg:     *)
(*   "absent"  nothing;                                                    *)
(*   "noexec"  a file without execute permission;                          *)
(*   "broken"  an executable file the system cannot run (wrong format);    *)
(*   "ok"      a runnable ripgrep.                                         *)
(***************************************************************************)
RgInstalls == {"absent", "noexec", "broken", "ok"}

\* shutil.which('rg'): an executable file of that name on PATH.
which_rg == rgInstall \in {"broken", "ok"}

\* _check_ripgrep(): the exception it raises, or "none".
check_skipped == "none"

_check_ripgrep == IF which_rg THEN "none" ELSE "ImportError"

\* What starting ['rg', ...] raises inside subprocess.run, or "none".
spawn_error ==
    CASE rgInstall = "absent" -> "FileNotFoundError"
      [] rgInstall = "noexec" -> "PermissionError"
      [] rgInstall = "broken" -> "OSError"
      [] rgInstall = "ok"     -> "none"

\* capture_output=True, text=True: both streams are decoded, which fails on
\* a byte that is not valid in the encoding, and "\r\n" and "\r" become "\n".
InvalidByte == "0xFF"

decodable(bytes) == \A i \in DOMAIN bytes : bytes[i] # InvalidByte

text_of(bytes) == replace(replace(bytes, <<"\r", "\n">>, <<"\n">>), <<"\r">>, <<"\n">>)

(***************************************************************************)
(* Ripit.search: the locals it computes and how it ends, for the default   *)
(* options defaults, pattern p, extra arguments a, and a child process     *)
(* that behaves as pr when it can be started.                              *)
(***************************************************************************)
RG == <<"r", "g">>

DashC == <<"-", "c">>

search_cmd(rx, defaults, a) == <<RG, rx>> \o defaults \o a

search_body(defaults, p, a, pr) ==
    LET rx == _convert_pattern(p)
        c  == search_cmd(rx, defaults, a)
        e  == spawn_error
    IN  IF e = "FileNotFoundError"
        THEN [regex_pattern |-> rx, cmd |-> c, proc |-> NoProc,
              output |-> NoValue, raised |-> "ImportError"]
        ELSE IF e # "none"
        THEN [regex_pattern |-> rx, cmd |-> c, proc |-> NoProc,
              output |-> NoValue, raised |-> e]
        ELSE IF ~(decodable(pr.stdout) /\ decodable(pr.stderr))
        THEN [regex_pattern |-> rx, cmd |-> c, proc |-> pr,
              output |-> NoValue, raised |-> "UnicodeDecodeError"]
        ELSE [regex_pattern |-> rx, cmd |-> c, proc |-> pr,
              output |-> text_of(pr.stdout), raised |-> "none"]

\* Ripit.count hands search '-c' and then its own extra arguments.
count_args_flag_last(a) == a \o <<DashC>>

count_args(a) == <<DashC>> \o a

(***************************************************************************)
(* Inputs of the calls and behaviours of the child process.                *)
(***************************************************************************)
MaxCalls == 2

ArgPath == <<"s", "r", "c">>

OptType == <<"-", "-", "t", "y", "p", "e">>

OptPy == <<"p", "y">>

OptW == <<"-", "w">>

CallPatterns == {PatDefName, TokAny}

ArgLists == {<<>>, <<DashC, ArgPath>>}

DefaultLists == {<<>>, <<OptType, OptPy>>}

PrNoMatch == [ran |-> TRUE, returncode |-> 1, stdout |-> <<>>, stderr |-> <<>>]

PrMatches ==
    [ran |-> TRUE, returncode |-> 0,
     stdout |-> <<"f", ":", "3", "\r", "\n", "g", ":", "5", "\n">>,
     stderr |-> <<>>]

PrPartial ==
    [ran |-> TRUE, returncode |-> 2,
     stdout |-> <<"f", ":", "3", "\n">>,
     stderr |-> <<"r", "g", ":", " ", "e", "\n">>]

PrBadStderr ==
    [ran |-> TRUE, returncode |-> 2,
     stdout |-> <<>>,
     stderr |-> <<"r", "g", ":", " ", InvalidByte, "\n">>]

ProcBehaviours == {PrNoMatch, PrMatches, PrPartial, PrBadStderr}

\* The behaviours to choose from: a process that cannot start has none.
ProcChoices == IF spawn_error = "none" THEN ProcBehaviours ELSE {NoProc}

(***************************************************************************)
(* The operations.                                                         *)
(***************************************************************************)
Init ==
    /\ rgInstall \in RgInstalls
    /\ imported = FALSE /\ hasSearcher = FALSE
    /\ default_args = <<>> /\ callerList = <<>> /\ aliased = FALSE
    /\ spawned = 0 /\ calls = 0
    /\ IdleCall
    /\ pattern = <<>> /\ regex_pattern = NoValue
    /\ pc = "run"

\* The environment changes what PATH holds.
SetEnv(e) ==
    /\ e # rgInstall
    /\ rgInstall' = e
    /\ UNCHANGED <<imported, hasSearcher, default_args, callerList, aliased,
                   spawned, calls, op, pattern, args, regex_pattern, cmd, proc,
                   output, result, raised, pc>>

NoCall(name, ex) ==
    /\ op' = name /\ pattern' = <<>> /\ args' = <<>>
    /\ regex_pattern' = NoValue /\ cmd' = <<>> /\ proc' = NoProc
    /\ output' = NoValue /\ result' = NoValue /\ raised' = ex

\* import of the package: src/__init__.py runs _check_ripgrep().
ImportPackage ==
    /\ ~imported /\ ~hasSearcher /\ calls = 0
    /\ imported' = (_check_ripgrep = "none")
    /\ NoCall("import", _check_ripgrep)
    /\ UNCHANGED <<rgInstall, hasSearcher, default_args, callerList, aliased,
                   spawned, calls, pc>>

\* Ripit(lst): 'default_args or []' keeps the caller's list object when it
\* is not empty, and makes a new empty list otherwise.
Construct(lst) ==
    /\ ~hasSearcher
    /\ IF _check_ripgrep = "none"
       THEN /\ hasSearcher' = TRUE
            /\ default_args' = lst
            /\ callerList' = lst
            /\ aliased' = (lst # <<>>)
       ELSE UNCHANGED <<hasSearcher, default_args, callerList, aliased>>
    /\ NoCall("construct", _check_ripgrep)
    /\ UNCHANGED <<rgInstall, imported, spawned, calls, pc>>

\* The caller appends to the list it passed to Ripit(...).
MutateCallerList(tok) ==
    /\ hasSearcher
    /\ callerList \in DefaultLists
    /\ callerList' = Append(callerList, tok)
    /\ default_args' = IF aliased THEN Append(default_args, tok) ELSE default_args
    /\ UNCHANGED <<rgInstall, imported, hasSearcher, aliased, spawned, calls, op,
                   pattern, args, regex_pattern, cmd, proc, output, result,
                   raised, pc>>

\* The value an operation returns from the text search returned.
returned(kind, out) ==
    CASE kind = "search" -> [value |-> out, raised |-> "none"]
      [] kind = "lines"  -> [value |-> lines_of(out), raised |-> "none"]
      [] kind = "count"  -> [value |-> count_of(out).total,
                             raised |-> count_of(out).raised]

\* A variant that runs the command a second time after a non-zero exit.
spawned_with_retry(pr) ==
    IF pr.ran THEN (IF pr.returncode = 0 THEN 1 ELSE 2) ELSE 0

\* The processes one call of search starts: the single subprocess.run, when
\* the operating system could start it.
processes_spawned(pr) == IF pr.ran THEN 1 ELSE 0

\* search, lines or count with the default options defaults.
Perform(name, kind, defaults, p, a, pr) ==
    \E r \in {search_body(defaults, p, IF kind = "count" THEN count_args(a) ELSE a, pr)} :
        /\ op' = name /\ pattern' = p /\ args' = a
        /\ regex_pattern' = r.regex_pattern
        /\ cmd' = r.cmd
        /\ proc' = r.proc
        /\ output' = r.output
        /\ IF r.raised = "none"
           THEN \E ret \in {returned(kind, r.output)} :
                    /\ raised' = ret.raised
                    /\ result' = IF ret.raised = "none" THEN ret.value ELSE NoValue
           ELSE /\ raised' = r.raised
                /\ result' = NoValue
        /\ spawned' = spawned + processes_spawned(r.proc)
        /\ calls' = calls + 1
        /\ UNCHANGED <<rgInstall, imported, hasSearcher, default_args,
                       callerList, aliased, pc>>

\* A method of the constructed instance.
Method(kind, p, a, pr) ==
    /\ hasSearcher
    /\ calls < MaxCalls
    /\ Perform(kind, kind, default_args, p, a, pr)

\* A module-level function: Ripit().<kind>(pattern, *args).
Function(name, kind, p, a, pr) ==
    /\ calls < MaxCalls
    /\ IF _check_ripgrep = "none"
       THEN Perform(name, kind, <<>>, p, a, pr)
       ELSE /\ NoCall(name, _check_ripgrep)
            /\ calls' = calls + 1
            /\ UNCHANGED <<rgInstall, imported, hasSearcher, default_args,
                           callerList, aliased, spawned, pc>>

DoSetEnv == \E e \in RgInstalls : SetEnv(e)

DoConstruct == \E lst \in DefaultLists : Construct(lst)

DoMutateCallerList == MutateCallerList(OptW)

Search == \E p \in CallPatterns, a \in ArgLists, pr \in ProcChoices :
              Method("search", p, a, pr)

Lines == \E p \in CallPatterns, a \in ArgLists, pr \in ProcChoices :
              Method("lines", p, a, pr)

Count == \E p \in CallPatterns, a \in ArgLists, pr \in ProcChoices :
              Method("count", p, a, pr)

SearchFn == \E p \in CallPatterns, a \in ArgLists, pr \in ProcChoices :
              Function("search_fn", "search", p, a, pr)

LinesFn == \E p \in CallPatterns, a \in ArgLists, pr \in ProcChoices :
              Function("lines_fn", "lines", p, a, pr)

CountFn == \E p \in CallPatterns, a \in ArgLists, pr \in ProcChoices :
              Function("count_fn", "count", p, a, pr)

Next ==
    \/ DoSetEnv
    \/ ImportPackage
    \/ DoConstruct
    \/ DoMutateCallerList
    \/ Search
    \/ Lines
    \/ Count
    \/ SearchFn
    \/ LinesFn
    \/ CountFn

Spec == Init /\ [][Next]_vars

(***************************************************************************)
(* Steps and vectors the statements below speak of.                        *)
(***************************************************************************)
\* The step is a call of search, of lines or of count.
SearchCalled == calls' = calls + 1 /\ op' \in {"search", "search_fn"}

CountCalled == calls' = calls + 1 /\ op' \in {"count", "count_fn"}

\* The default options of the searcher the call is made on.
DefaultsOfCall == IF op' \in {"search", "lines", "count"} THEN default_args ELSE <<>>

Occurrences(seq, x) == Cardinality({i \in DOMAIN seq : seq[i] = x})

\* C4 as stated: search executes exactly ['rg', translate(pattern)], then
\* the default options in configured order, then the extra arguments in the
\* given order, and returns the process's standard output unchanged.
C4_ArgvAndRawOutput ==
    [][(SearchCalled /\ proc'.ran) =>
          /\ cmd' = <<RG, _convert_pattern(pattern')>> \o DefaultsOfCall \o args'
          /\ raised' = "none"
          /\ result' = proc'.stdout]_vars

\* C4, the part that holds: the argument vector is as stated whenever a
\* process is executed, and when search returns it returns the standard
\* output decoded as text, every "\r\n" and "\r" of it turned into "\n".
C4_ArgvAndDecodedText ==
    [][(SearchCalled /\ proc'.ran) =>
          /\ cmd' = <<RG, _convert_pattern(pattern')>> \o DefaultsOfCall \o args'
          /\ raised' \in {"none", "UnicodeDecodeError"}
          /\ (raised' = "none" => result' = text_of(proc'.stdout))]_vars

Constructing == DoConstruct \/ ImportPackage \/ SearchFn \/ LinesFn \/ CountFn

\* C9: when rg is not discoverable on the path, constructing a searcher,
\* calling a module-level function and importing the package raise the
\* dependency-missing error; no process is spawned, no search is begun, and
\* no searcher (and no imported package) exists afterwards that did not
\* exist before.
C9_ConstructionFailsFirst ==
    [][(~which_rg /\ Constructing) =>
          /\ raised' = "ImportError"
          /\ spawned' = spawned /\ ~proc'.ran
          /\ cmd' = <<>> /\ regex_pattern' = NoValue /\ result' = NoValue
          /\ hasSearcher' = hasSearcher
          /\ (op' = "construct" => ~hasSearcher')
          /\ imported' = imported
          /\ (op' = "import" => ~imported')]_vars

C9_Witness ==
    /\ op = "construct"
    /\ raised = "ImportError"
    /\ ~which_rg
    /\ ~hasSearcher
    /\ spawned = 0

\* C10: once the process has run, search, lines and count raise nothing,
\* whatever its exit status and standard error; search returns the captured
\* standard output.
C10_NothingRaisedAfterRun ==
    proc.ran =>
        /\ raised = "none"
        /\ (op \in {"search", "search_fn"} => result = text_of(proc.stdout))

\* The step is a call of a public operation, on the instance or through a
\* module-level function.
OperationCalled ==
    /\ calls' = calls + 1
    /\ op' \in {"search", "lines", "count", "search_fn", "lines_fn", "count_fn"}

\* C11: when 'rg' is found on the search path and starting the process
\* fails for a reason of the operating system, the operation raises the
\* dependency-missing error (ImportError), as for a missing executable.
C11_SpawnFailureIsImportError ==
    [][(OperationCalled /\ which_rg /\ spawn_error # "none") =>
          raised' = "ImportError"]_vars

\* C13: the default options of a constructed searcher never change: not by
\* search, lines or count, and not by a later change the caller makes to the
\* list that was passed to the constructor.
C13_DefaultArgsNeverChange ==
    [][hasSearcher => default_args' = default_args]_vars

KindOfCall ==
    CASE op' \in {"search", "search_fn"} -> "search"
      [] op' \in {"lines", "lines_fn"}   -> "lines"
      [] OTHER                            -> "count"

=============================================================================
